---- MODULE Spec2Model ----
(***************************************************************************)
(* Model of the ArtworksTable component (src/unnamed/part_000): the page   *)
(* loader effect with its `cancelled` flag, the selection map and its      *)
(* localStorage mirror, and the multi-page bulk selection applyAutoSelect. *)
(*                                                                         *)
(* JavaScript values are tagged records, JSON text is a syntax tree, and   *)
(* JSON.parse / JSON.stringify are modelled by what they do (keys become   *)
(* strings, integer keys are emitted in ascending order, undefined         *)
(* properties are dropped, duplicate keys keep the last member).           *)
(*                                                                         *)
(* Presentational state (tableKey, showClearDialog, the overlay panel) is  *)
(* not modelled.  The three controls of the overlay (selectNumber,         *)
(* strategy, addToExisting) are plain stored inputs that only              *)
(* applyAutoSelect reads, so they are drawn at the Apply click.            *)
(***************************************************************************)
EXTENDS Integers, Sequences, FiniteSets, TLC

VARIABLES
    phase,            \* "boot" (before the first render), "running", "crashed"
    blob,             \* localStorage slot STORAGE_KEY
    selectedMap,      \* useState selectedMap (a JavaScript value)
    page,             \* useState page (1-based)
    rows,             \* useState rows
    totalRecords,     \* useState totalRecords
    loading,          \* useState loading
    requests,         \* in-flight axios.get calls of the page effect
    gen,              \* number of page-effect runs since the last (re)load
    userEvents,       \* number of user events handled so far
    selectingLoading, \* useState selectingLoading
    bulk,             \* the suspended applyAutoSelect call (its closure and locals)
    persistOk,        \* history: did the last localStorage.setItem succeed
    lastResponse,     \* history: response delivered to the newest page-effect run
    rowsPage,         \* history: page number whose response filled rows (0: none yet)
    event             \* history: the handler that ran in the last step, with its outputs

vars == <<phase, blob, selectedMap, page, rows, totalRecords, loading, requests, gen, userEvents,
          selectingLoading, bulk, persistOk, lastResponse, rowsPage, event>>

-----------------------------------------------------------------------------
(* Bounds of the model *)

\* page size; the component fixes it at 12 (useState(12)); scaled down here
rowsPerPage == 2
\* number of records in the remote catalog
ServerTotal == 5
\* largest target count typed into the Number input
MaxN == 3
\* user events (clicks, reloads) explored in one behaviour
MaxUserEvents == 2

Min(a, b) == IF a < b THEN a ELSE b
Max(a, b) == IF a > b THEN a ELSE b

-----------------------------------------------------------------------------
(* JavaScript values *)

Undefined == [t |-> "undefined"]
JsNull == [t |-> "null"]
JsBool(b) == [t |-> "boolean", b |-> b]
JsNum(n) == [t |-> "number", n |-> n]
JsStr(s) == [t |-> "string", s |-> s]
JsArr(a) == [t |-> "array", a |-> a]
JsObj(o) == [t |-> "object", o |-> o]
EmptyObj == JsObj([k \in {} |-> Undefined])

\* the property keys that are canonical array indices ("0", "1", ...)
MaxKey == rowsPerPage + ServerTotal + MaxN
KeyTable == [i \in 0..MaxKey |-> ToString(i)]
IndexKeys == {KeyTable[i] : i \in 0..MaxKey}
IsIndexKey(k) == k \in IndexKeys
KeyNum(k) == CHOOSE i \in 0..MaxKey : KeyTable[i] = k

\* ToPropertyKey of a number: copy[row.id] addresses the property String(row.id)
PropKey(n) == KeyTable[n]

\* v[k] for an object (undefined when the property is absent)
Get(v, k) == IF v.t = "object" /\ k \in DOMAIN v.o THEN v.o[k] ELSE Undefined

\* order of the string-named properties the component creates (lines 123, 212)
FieldOrder == <<"id", "title", "artist_display", "x">>

\* every property key of the model in OrdinaryOwnPropertyKeys order:
\* integer keys ascending, then string keys in creation order
KeyOrder == [i \in 1..MaxKey + 1 |-> KeyTable[i - 1]] \o FieldOrder

OwnKeys(o) == SelectSeq(KeyOrder, LAMBDA k : k \in DOMAIN o)

\* { ...v }: own enumerable properties of v copied into a fresh object
Spread(v) ==
    CASE v.t = "object" -> JsObj(v.o)
      [] v.t = "array" -> JsObj([k \in {ToString(i - 1) : i \in 1..Len(v.a)} |-> v.a[KeyNum(k) + 1]])
      [] OTHER -> EmptyObj

\* copy[k] = x
SetProp(v, k, x) == JsObj([j \in DOMAIN v.o \cup {k} |-> IF j = k THEN x ELSE v.o[j]])

\* delete copy[k]
DeleteProp(v, k) == JsObj([j \in DOMAIN v.o \ {k} |-> v.o[j]])

-----------------------------------------------------------------------------
(* JSON text, JSON.parse and JSON.stringify *)

JNull == [j |-> "null"]
JBool(b) == [j |-> "boolean", b |-> b]
JNum(n) == [j |-> "number", n |-> n]
JStr(s) == [j |-> "string", s |-> s]
JArr(items) == [j |-> "array", items |-> items]
JObj(members) == [j |-> "object", members |-> members]
Member(k, v) == [key |-> k, value |-> v]

\* contents of the storage slot
Absent == [k |-> "absent"]
EmptyText == [k |-> "text", parses |-> FALSE, empty |-> TRUE]
NotJson == [k |-> "text", parses |-> FALSE, empty |-> FALSE]
JsonText(j) == [k |-> "text", parses |-> TRUE, json |-> j]

RECURSIVE JsonParse(_)
RECURSIVE ParseMembers(_, _)
ParseMembers(members, acc) ==
    IF members = <<>> THEN acc
    ELSE ParseMembers(Tail(members),
                      SetProp(acc, Head(members).key, JsonParse(Head(members).value)))

JsonParse(j) ==
    CASE j.j = "null" -> JsNull
      [] j.j = "boolean" -> JsBool(j.b)
      [] j.j = "number" -> JsNum(j.n)
      [] j.j = "string" -> JsStr(j.s)
      [] j.j = "array" -> JsArr([i \in 1..Len(j.items) |-> JsonParse(j.items[i])])
      [] j.j = "object" -> ParseMembers(j.members, EmptyObj)

RECURSIVE JsonStringify(_)
JsonStringify(v) ==
    CASE v.t = "null" -> JNull
      [] v.t = "undefined" -> JNull
      [] v.t = "boolean" -> JBool(v.b)
      [] v.t = "number" -> JNum(v.n)
      [] v.t = "string" -> JStr(v.s)
      [] v.t = "array" -> JArr([i \in 1..Len(v.a) |-> JsonStringify(v.a[i])])
      [] v.t = "object" ->
            LET kept == SelectSeq(OwnKeys(v.o), LAMBDA k : v.o[k] # Undefined)
            IN JObj([i \in 1..Len(kept) |-> Member(kept[i], JsonStringify(v.o[kept[i]]))])

-----------------------------------------------------------------------------
(* The remote catalog (external collaborator) *)

CeilDiv(a, b) == (a + b - 1) \div b

NumPages == Max(1, CeilDiv(ServerTotal, rowsPerPage))

\* one Artwork; title is optional in the type and absent for even identifiers
Artwork(i) ==
    [id |-> i,
     title |-> IF i % 2 = 1 THEN JsStr("title") ELSE Undefined,
     artist_display |-> JsStr("artist")]

\* resp.data.data of GET /artworks?page=p&limit=rowsPerPage
PageData(p) ==
    LET first == (p - 1) * rowsPerPage + 1
        last == Min(p * rowsPerPage, ServerTotal)
    IN [i \in 1..Max(0, last - first + 1) |-> Artwork(first + i - 1)]

\* an axios.get call resolves with the page or rejects
Outcomes == {"ok", "error"}

-----------------------------------------------------------------------------
(* Startup *)

\* the useState initializer of selectedMap
SelectedMapInitializer(b) ==
    IF b.k = "absent" THEN EmptyObj                 \* raw === null
    ELSE IF ~b.parses THEN EmptyObj                 \* "" is falsy; JSON.parse throws, caught
    ELSE JsonParse(b.json)

\* the first render: Object.keys(selectedMap) and Object.values(selectedMap).map(m => m.id ...)
RenderThrows(v) ==
    CASE v.t = "null" -> TRUE
      [] v.t = "undefined" -> TRUE
      [] v.t = "object" -> \E k \in DOMAIN v.o : v.o[k].t \in {"null", "undefined"}
      [] v.t = "array" -> \E i \in 1..Len(v.a) : v.a[i].t \in {"null", "undefined"}
      [] OTHER -> FALSE

NoBulk == [pc |-> "idle"]
NoEvent == [name |-> "none"]
NoResponse == [p |-> 0, outcome |-> "none"]

\* variant: the effect serializes the map of the previous render
PersistPrevious(m, ok) ==
    /\ blob' = IF ok THEN JsonText(JsonStringify(selectedMap)) ELSE blob
    /\ persistOk' = ok

\* the effect that mirrors selectedMap into localStorage; ok: setItem did not throw
Persist(m, ok) ==
    /\ blob' = IF ok THEN JsonText(JsonStringify(m)) ELSE blob
    /\ persistOk' = ok

\* the state of a freshly loaded document, before React renders the component
Boot ==
    /\ phase = "boot"
    /\ selectedMap = EmptyObj
    /\ page = 1
    /\ rows = <<>>
    /\ totalRecords = 0
    /\ loading = FALSE
    /\ requests = {}
    /\ gen = 0
    /\ userEvents = 0
    /\ selectingLoading = FALSE
    /\ persistOk = TRUE
    /\ lastResponse = NoResponse
    /\ rowsPage = 0
    /\ event = NoEvent

Init ==
    /\ blob \in {Absent, NotJson}
    /\ Boot
    /\ bulk = NoBulk

\* first render of ArtworksTable and its two mount effects
Mount ==
    /\ phase = "boot"
    /\ LET m == SelectedMapInitializer(blob) IN
         /\ selectedMap' = m
         /\ IF RenderThrows(m)
            THEN /\ phase' = "crashed"
                 /\ UNCHANGED <<blob, loading, requests, gen, persistOk>>
            ELSE /\ phase' = "running"
                 /\ loading' = TRUE
                 /\ gen' = 1
                 /\ requests' = {[gen |-> 1, p |-> page, cancelled |-> FALSE]}
                 /\ \E ok \in BOOLEAN : Persist(m, ok)
    /\ event' = NoEvent
    /\ UNCHANGED <<page, rows, totalRecords, userEvents, selectingLoading, bulk, lastResponse, rowsPage>>

\* the user reloads the document: component state is lost, the storage slot stays
Reload ==
    /\ phase \in {"running", "crashed"}
    /\ userEvents < MaxUserEvents
    /\ userEvents' = userEvents + 1
    /\ phase' = "boot"
    /\ selectedMap' = EmptyObj
    /\ page' = 1
    /\ rows' = <<>>
    /\ totalRecords' = 0
    /\ loading' = FALSE
    /\ requests' = {}
    /\ gen' = 0
    /\ selectingLoading' = FALSE
    /\ bulk' = NoBulk
    /\ persistOk' = TRUE
    /\ lastResponse' = NoResponse
    /\ rowsPage' = 0
    /\ event' = NoEvent
    /\ UNCHANGED blob

-----------------------------------------------------------------------------
(* PaginationController: the page effect *)

\* cleanup of the previous effect run: cancelled = true
CancelAll(rs) == {[r EXCEPT !.cancelled = TRUE] : r \in rs}

\* onPageChange: setPage(event.page + 1); the effect reruns when page changed
OnPageChange(ep) ==
    /\ phase = "running"
    /\ userEvents < MaxUserEvents
    /\ userEvents' = userEvents + 1
    /\ event' = NoEvent
    /\ IF ep + 1 = page
       THEN UNCHANGED <<page, loading, requests, gen>>
       ELSE /\ page' = ep + 1
            /\ gen' = gen + 1
            /\ loading' = TRUE
            /\ requests' = CancelAll(requests)
                              \cup {[gen |-> gen + 1, p |-> ep + 1, cancelled |-> FALSE]}
    /\ UNCHANGED <<phase, blob, selectedMap, rows, totalRecords, selectingLoading, bulk,
                   persistOk, lastResponse, rowsPage>>

\* variant: the cancelled flag is never consulted
DropsNever(r) == FALSE

\* does fetchPage return at `if (cancelled) return`
Drops(r) == r.cancelled

\* the continuation of fetchPage(p) after `await axios.get`
LoadPageResolve(r, outcome) ==
    /\ phase = "running"
    /\ r \in requests
    /\ requests' = requests \ {r}
    /\ lastResponse' = IF r.gen = gen THEN [p |-> r.p, outcome |-> outcome] ELSE lastResponse
    /\ event' = [name |-> "loadPageResolve", stale |-> r.gen # gen]
    /\ IF Drops(r)
       THEN UNCHANGED <<rows, totalRecords, loading, rowsPage>>
       ELSE /\ rows' = IF outcome = "ok" THEN PageData(r.p) ELSE <<>>
            /\ totalRecords' = IF outcome = "ok" THEN ServerTotal ELSE 0
            /\ loading' = FALSE
            /\ rowsPage' = r.p
    /\ UNCHANGED <<phase, blob, selectedMap, page, gen, userEvents, selectingLoading, bulk, persistOk>>

-----------------------------------------------------------------------------
(* SelectionStore: the handlers that change selectedMap *)

\* { id: row.id, title: row.title, artist_display: row.artist_display }
SelectedMeta(row) ==
    JsObj([f \in {"id", "title", "artist_display"} |->
              CASE f = "id" -> JsNum(row.id)
                [] f = "title" -> row.title
                [] f = "artist_display" -> row.artist_display])

\* setSelectedMap(m) followed by the persist effect of the next commit
Commit(m) ==
    /\ selectedMap' = m
    /\ \E ok \in BOOLEAN : Persist(m, ok)

\* event.checked ?? false
Checked(c) == IF c = <<>> THEN FALSE ELSE c[1]

CheckboxUpdater(prev, row, checked) ==
    IF checked THEN SetProp(Spread(prev), PropKey(row.id), SelectedMeta(row))
    ELSE DeleteProp(Spread(prev), PropKey(row.id))

\* onCheckboxChange(row, event) for a row of the table
OnCheckboxChange(row, c) ==
    /\ phase = "running"
    /\ userEvents < MaxUserEvents
    /\ userEvents' = userEvents + 1
    /\ Commit(CheckboxUpdater(selectedMap, row, Checked(c)))
    /\ event' = [name |-> "onCheckboxChange", id |-> row.id, checked |-> Checked(c)]
    /\ UNCHANGED <<phase, page, rows, totalRecords, loading, requests, gen, selectingLoading,
                   bulk, lastResponse, rowsPage>>

\* deselectId(m.id) from the side panel
DeselectId(id) ==
    /\ phase = "running"
    /\ userEvents < MaxUserEvents
    /\ userEvents' = userEvents + 1
    /\ Commit(DeleteProp(Spread(selectedMap), PropKey(id)))
    /\ event' = [name |-> "deselectId", id |-> id]
    /\ UNCHANGED <<phase, page, rows, totalRecords, loading, requests, gen, selectingLoading,
                   bulk, lastResponse, rowsPage>>

\* doClearSelections
DoClearSelections ==
    /\ phase = "running"
    /\ userEvents < MaxUserEvents
    /\ userEvents' = userEvents + 1
    /\ Commit(EmptyObj)
    /\ event' = [name |-> "doClearSelections"]
    /\ UNCHANGED <<phase, page, rows, totalRecords, loading, requests, gen, selectingLoading,
                   bulk, lastResponse, rowsPage>>

-----------------------------------------------------------------------------
(* BulkSelector: applyAutoSelect *)

Strategies == {"first", "random", "every"}

\* values of the Number input: empty (undefined) or a number
SelectNumbers == {<<>>} \cup {<<n>> : n \in (-1)..MaxN}

\* selectNumber ?? 0
TargetCount(sn) == IF sn = <<>> THEN 0 ELSE sn[1]

\* variant: only negative counts are rejected
IsNoopStrict(n) == n < 0

\* if (n <= 0) { hide the overlay; return }
IsNoop(n) == n <= 0

\* Math.max(1, Math.ceil((totalRecords || 0) / rowsPerPage))
TotalPages(total) == Max(1, CeilDiv(total, rowsPerPage))

\* variant: one-based indices
FirstIndicesFromOne(pickCount) == [i \in 1..pickCount |-> i]

\* Array.from({ length: pickCount }, (_, i) => i)
FirstIndices(pickCount) == [i \in 1..pickCount |-> i - 1]

\* variant: the drawn index stays in the pool
SpliceKeeps(pool, pick) == pool

\* pool.splice(pick, 1)
Splice(pool, pick) == [i \in 1..Len(pool) - 1 |-> IF i <= pick THEN pool[i] ELSE pool[i + 1]]

\* the results of the draw loop, one per outcome of the Math.random() calls
RECURSIVE RandomDraws(_, _)
RandomDraws(pool, count) ==
    IF count = 0 \/ pool = <<>> THEN {<<>>}
    ELSE UNION {{<<pool[pick + 1]>> \o rest : rest \in RandomDraws(Splice(pool, pick), count - 1)}
                  : pick \in 0..Len(pool) - 1}

\* variant: the walk tests idx <= availableCount
RECURSIVE EveryWalkInclusive(_, _, _, _, _)
EveryWalkInclusive(indices, idx, step, pickCount, availableCount) ==
    IF Len(indices) < pickCount /\ idx <= availableCount
    THEN EveryWalkInclusive(Append(indices, idx), idx + step, step, pickCount, availableCount)
    ELSE indices

\* while (indices.length < pickCount && idx < availableCount) { push(idx); idx += step }
RECURSIVE EveryWalk(_, _, _, _, _)
EveryWalk(indices, idx, step, pickCount, availableCount) ==
    IF Len(indices) < pickCount /\ idx < availableCount
    THEN EveryWalk(Append(indices, idx), idx + step, step, pickCount, availableCount)
    ELSE indices

\* selectNumber && selectNumber >= 1 ? selectNumber : 1
Step(sn) == IF sn # <<>> /\ sn[1] # 0 /\ sn[1] >= 1 THEN sn[1] ELSE 1

EveryIndices(sn, pickCount, availableCount) ==
    IF Step(sn) = 1 THEN FirstIndices(pickCount)
    ELSE EveryWalk(<<>>, 0, Step(sn), pickCount, availableCount)

\* the index lists the strategy can produce
SelectIndices(strategy, sn, pickCount, availableCount) ==
    CASE strategy = "first" -> {FirstIndices(pickCount)}
      [] strategy = "random" -> RandomDraws(FirstIndices(availableCount), pickCount)
      [] strategy = "every" -> {EveryIndices(sn, pickCount, availableCount)}

\* indices.forEach(i => { const item = combined[i]; if (item) base[item.id] = {...} })
RECURSIVE AddPicked(_, _, _)
AddPicked(base, combined, indices) ==
    IF indices = <<>> THEN base
    ELSE LET i == Head(indices)
             next == IF i + 1 \in DOMAIN combined
                     THEN SetProp(base, PropKey(combined[i + 1].id), SelectedMeta(combined[i + 1]))
                     ELSE base
         IN AddPicked(next, combined, Tail(indices))

\* the identifiers written by the forEach
PickedIds(combined, indices) ==
    {combined[indices[k] + 1].id : k \in {j \in 1..Len(indices) : indices[j] + 1 \in DOMAIN combined}}

\* addToExisting ? { ...selectedMap } : {} with the selectedMap of the closure
Base(b) == IF b.add THEN Spread(b.map) ELSE EmptyObj

\* variant: the last page is never fetched
MoreToFetchStrict(b) == Len(b.combined) < b.n /\ b.nextPage < b.totalPages

\* combined.length < n && nextPage <= totalPages
MoreToFetch(b) == Len(b.combined) < b.n /\ b.nextPage <= b.totalPages

\* Math.min(n, availableCount)
PickCount(n, availableCount) == Min(n, availableCount)

\* lines 183-214: the maps the index selection and the forEach can build, each with
\* the identifiers it wrote
Results(b) ==
    LET availableCount == Len(b.combined)
        pickCount == PickCount(b.n, availableCount)
    IN {[map |-> AddPicked(Base(b), b.combined, indices),
         picked |-> PickedIds(b.combined, indices)]
          : indices \in SelectIndices(b.strategy, b.sn, pickCount, availableCount)}

\* lines 183-219: pick the indices, build the result and replace the map
Finish(b) ==
    \E res \in Results(b) :
         /\ Commit(res.map)
         /\ selectingLoading' = FALSE
         /\ bulk' = NoBulk
         /\ event' = [name |-> "bulkDone", sn |-> b.sn, n |-> b.n, strategy |-> b.strategy, add |-> b.add,
                      combined |-> b.combined, picked |-> res.picked,
                      page |-> b.page, totalRecords |-> b.totalRecords,
                      seedLen |-> b.seedLen, sources |-> b.sources, fetched |-> b.fetched,
                      outcomes |-> b.outcomes]

\* issue fetchPageData(nextPage) and suspend
Await(b) ==
    /\ bulk' = [b EXCEPT !.pc = "awaiting",
                         !.fetched = Append(@, [p |-> b.nextPage, before |-> Len(b.combined)])]
    /\ selectingLoading' = TRUE
    /\ UNCHANGED <<selectedMap, blob, persistOk>>

\* applyAutoSelect, from the Apply click to its first await (or to its end)
ApplyAutoSelect(sn, strategy, add) ==
    /\ phase = "running"
    /\ ~selectingLoading
    /\ userEvents < MaxUserEvents
    /\ userEvents' = userEvents + 1
    /\ LET n == TargetCount(sn)
           b == [pc |-> "running", sn |-> sn, n |-> n, strategy |-> strategy, add |-> add,
                 combined |-> rows, totalPages |-> TotalPages(totalRecords),
                 nextPage |-> page + 1, map |-> selectedMap, page |-> page,
                 totalRecords |-> totalRecords, seedLen |-> Len(rows),
                 sources |-> <<rowsPage>>, fetched |-> <<>>, outcomes |-> <<>>]
       IN IF IsNoop(n)
          THEN /\ event' = [name |-> "applyNoop", sn |-> sn]
               /\ UNCHANGED <<selectedMap, blob, persistOk, selectingLoading, bulk>>
          ELSE IF MoreToFetch(b)
               THEN Await(b) /\ event' = [name |-> "applyAwait", sn |-> sn]
               ELSE Finish(b)
    /\ UNCHANGED <<phase, page, rows, totalRecords, loading, requests, gen, lastResponse, rowsPage>>

\* fetchPageData: the page's items, or [] when the request failed
FetchPageData(p, outcome) == IF outcome = "ok" THEN PageData(p) ELSE <<>>

\* the continuation of applyAutoSelect after `await fetchPageData(nextPage)`
BulkFetchResolve(outcome) ==
    /\ phase = "running"
    /\ bulk.pc = "awaiting"
    /\ UNCHANGED userEvents
    /\ LET b == [bulk EXCEPT !.combined = @ \o FetchPageData(bulk.nextPage, outcome),
                             !.sources = Append(@, bulk.nextPage),
                             !.outcomes = Append(@, outcome),
                             !.nextPage = @ + 1]
       IN IF MoreToFetch(b)
          THEN Await(b) /\ event' = NoEvent
          ELSE Finish(b)
    /\ UNCHANGED <<phase, page, rows, totalRecords, loading, requests, gen, lastResponse, rowsPage>>

-----------------------------------------------------------------------------
(* Specifications *)

\* identifiers listed in the side panel: Object.values(selectedMap).map(m => m.id)
PanelIds == {KeyNum(k) : k \in DOMAIN selectedMap.o}

Next ==
    \/ Mount
    \/ Reload
    \/ \E ep \in 0..NumPages - 1 : OnPageChange(ep)
    \/ \E r \in requests, outcome \in Outcomes : LoadPageResolve(r, outcome)
    \/ \E i \in 1..Len(rows), c \in {<<>>, <<TRUE>>, <<FALSE>>} : OnCheckboxChange(rows[i], c)
    \/ \E id \in PanelIds : DeselectId(id)
    \/ DoClearSelections
    \/ \E sn \in SelectNumbers, strategy \in Strategies, add \in BOOLEAN :
          ApplyAutoSelect(sn, strategy, add)
    \/ \E outcome \in Outcomes : BulkFetchResolve(outcome)

Spec == Init /\ [][Next]_vars

-----------------------------------------------------------------------------
(* Startup on any content of the storage slot *)

\* values a stored entry can hold
MetaTexts ==
    {JNull, JNum(1),
     JObj(<<Member("id", JNum(1))>>),
     JObj(<<Member("id", JNum(2))>>),
     JObj(<<Member("id", JNum(1)), Member("title", JStr("title"))>>),
     JObj(<<Member("id", JStr("1"))>>)}

StoredMembers == {Member(k, v) : k \in {"1", "2", "x"}, v \in MetaTexts}

\* contents of the slot left by this or any other writer of the origin
BlobDomain ==
    {Absent, EmptyText, NotJson}
      \cup {JsonText(j) : j \in {JNull, JBool(TRUE), JBool(FALSE), JNum(0), JNum(5), JStr("abc")}}
      \cup {JsonText(JArr(<<>>))}
      \cup {JsonText(JArr(<<v>>)) : v \in MetaTexts}
      \cup {JsonText(JObj(<<>>))}
      \cup {JsonText(JObj(<<m>>)) : m \in StoredMembers}
      \cup {JsonText(JObj(<<m1, m2>>)) : m1 \in StoredMembers, m2 \in StoredMembers}

InitAnyBlob ==
    /\ blob \in BlobDomain
    /\ Boot
    /\ bulk = NoBulk

SpecInit == InitAnyBlob /\ [][Mount]_vars

-----------------------------------------------------------------------------
(* The index selection of applyAutoSelect on any target count and buffer length *)

\* largest buffer length drawn
MaxAvailable == 6

InitPick ==
    /\ blob = Absent
    /\ Boot
    /\ \E n \in 1..MaxN, strategy \in Strategies, availableCount \in 0..MaxAvailable :
          bulk = [pc |-> "select", sn |-> <<n>>, n |-> n, strategy |-> strategy,
                  availableCount |-> availableCount]

\* lines 183-206 on the drawn inputs
PickIndices ==
    /\ bulk.pc = "select"
    /\ \E indices \in SelectIndices(bulk.strategy, bulk.sn,
                                    PickCount(bulk.n, bulk.availableCount), bulk.availableCount) :
          event' = [name |-> "indices", n |-> bulk.n, strategy |-> bulk.strategy,
                    availableCount |-> bulk.availableCount, indices |-> indices]
    /\ bulk' = NoBulk
    /\ UNCHANGED <<phase, blob, selectedMap, page, rows, totalRecords, loading, requests, gen,
                   userEvents, selectingLoading, persistOk, lastResponse, rowsPage>>

SpecPick == InitPick /\ [][PickIndices]_vars

-----------------------------------------------------------------------------
(* Properties *)

\* a value with its undefined properties removed, at every level
RECURSIVE Normalize(_)
Normalize(v) ==
    CASE v.t = "object" ->
            JsObj([k \in {j \in DOMAIN v.o : v.o[j] # Undefined} |-> Normalize(v.o[k])])
      [] v.t = "array" -> JsArr([i \in 1..Len(v.a) |-> Normalize(v.a[i])])
      [] OTHER -> v

\* a SelectionMap: every key is the identifier of the record it holds
IsSelectionMap(v) ==
    /\ v.t = "object"
    /\ \A k \in DOMAIN v.o :
          /\ IsIndexKey(k)
          /\ v.o[k].t = "object"
          /\ Get(v.o[k], "id") = JsNum(KeyNum(k))

Entry(id) == SelectedMeta(Artwork(id))

\* C1: after every mutation of the selection (checkbox, side panel, clear, bulk
\* select) the map holds the mutated value whether or not the write succeeded, and
\* when the last write succeeded the slot holds the serialization of the map, which
\* a restart reads back as the same map.
C1_PersistMirrorsSelection ==
    phase = "running" =>
      /\ IsSelectionMap(selectedMap)
      /\ persistOk =>
            /\ blob = JsonText(JsonStringify(selectedMap))
            /\ Normalize(SelectedMapInitializer(blob)) = Normalize(selectedMap)
      /\ event.name = "onCheckboxChange" =>
            Get(selectedMap, PropKey(event.id)) = IF event.checked THEN Entry(event.id) ELSE Undefined
      /\ event.name = "deselectId" => Get(selectedMap, PropKey(event.id)) = Undefined
      /\ event.name = "doClearSelections" => selectedMap = EmptyObj
      /\ event.name = "bulkDone" =>
            \A id \in event.picked : Get(selectedMap, PropKey(id)) = Entry(id)

\* a restart has read back an entry whose title was undefined when it was stored
C1_Witness ==
    /\ phase = "running"
    /\ userEvents = 2
    /\ gen = 1
    /\ rows = <<>>
    /\ Get(selectedMap, PropKey(2)) # Undefined
    /\ persistOk

\* rows and totalRecords as fetchPage sets them from a response
Shown(resp) ==
    IF resp.outcome = "ok" THEN <<PageData(resp.p), ServerTotal>> ELSE <<<<>>, 0>>

\* C2: a response to a superseded page load changes neither rows nor totalRecords,
\* and once no load is in flight rows and totalRecords are those of the response to
\* the load of the current page.
C2_StaleResponsesDiscarded ==
    /\ [](phase = "running" /\ requests = {} =>
            /\ lastResponse.p = page
            /\ <<rows, totalRecords>> = Shown(lastResponse))
    /\ [][event'.name = "loadPageResolve" /\ event'.stale
            => UNCHANGED <<rows, totalRecords>>]_vars

\* the response to a superseded load arrived after the current page was shown
C2_Witness ==
    /\ phase = "running"
    /\ requests = {}
    /\ event.name = "loadPageResolve"
    /\ event.stale
    /\ rows # <<>>
    /\ page # 1

\* the map a right-biased union of M with the picked entries gives
RightBiasedUnion(M, picked) ==
    JsObj([k \in DOMAIN M.o \cup {PropKey(id) : id \in picked} |->
              IF \E id \in picked : PropKey(id) = k
              THEN Entry(KeyNum(k))
              ELSE M.o[k]])

\* C3: a bulk select with addToExisting replaces the map by the right-biased union
\* of the map at that moment with the picked entries.
C3_MergeIsUnionWithCurrentMap ==
    [][event'.name = "bulkDone" /\ event'.add
         => selectedMap' = RightBiasedUnion(selectedMap, event'.picked)]_vars

\* C4: an Apply click with a target count that is unset or not positive issues no
\* fetch and leaves the map and the storage slot unchanged.
C4_NonPositiveCountIsNoop ==
    [][event'.name \in {"applyNoop", "applyAwait", "bulkDone"} /\ TargetCount(event'.sn) <= 0
         => /\ UNCHANGED <<selectedMap, blob, bulk, selectingLoading>>
            /\ bulk.pc = "idle"]_vars

\* Apply was clicked with no usable count while a selection existed
C4_Witness ==
    /\ event.name = "applyNoop"
    /\ selectedMap # EmptyObj

\* C5: whatever the storage slot holds, startup ends with the component running on
\* a SelectionMap.
C5_StartupYieldsSelectionMap ==
    phase # "boot" => phase = "running" /\ IsSelectionMap(selectedMap)

\* C6: with the first strategy the picked identifiers are those of the first
\* min(N, available) items of the buffer.
C6_FirstPicksBufferPrefix ==
    event.name = "bulkDone" /\ event.strategy = "first" =>
      event.picked = {event.combined[i].id : i \in 1..Min(event.n, Len(event.combined))}

\* a first-N selection that needed two page fetches, the first of which failed
C6_Witness ==
    /\ event.name = "bulkDone"
    /\ event.strategy = "first"
    /\ Len(event.fetched) = 2
    /\ event.outcomes[1] = "error"
    /\ event.picked # {}

Distinct(seq) == \A i, j \in 1..Len(seq) : i # j => seq[i] # seq[j]

InRange(seq, availableCount) == \A i \in 1..Len(seq) : seq[i] \in 0..availableCount - 1

\* C7 as stated: every strategy selects exactly min(N, available) distinct indices
\* within [0, available).
C7_ExactlyPickCountIndices ==
    event.name = "indices" =>
      /\ Len(event.indices) = Min(event.n, event.availableCount)
      /\ Distinct(event.indices)
      /\ InRange(event.indices, event.availableCount)

\* number of strides 0, N, 2N, ... below available
Strides(n, availableCount) == Cardinality({m \in 0..availableCount - 1 : m % n = 0})

\* C7 amended: the selected indices are distinct and within [0, available); first
\* and random select exactly min(N, available) of them, everyNth selects
\* min(N, available, number of multiples of N below available).
C7_IndicesDistinctInRange ==
    event.name = "indices" =>
      /\ Distinct(event.indices)
      /\ InRange(event.indices, event.availableCount)
      /\ Len(event.indices) =
            IF event.strategy = "every"
            THEN Min(Min(event.n, event.availableCount), Strides(event.n, event.availableCount))
            ELSE Min(event.n, event.availableCount)

\* a random selection that drew from a pool larger than the count
C7_Witness ==
    /\ event.name = "indices"
    /\ event.strategy = "random"
    /\ event.n >= 2
    /\ event.availableCount > event.n
    /\ event.indices[1] > event.indices[2]

\* C8: the fetched pages are page+1, page+2, ... in order; each is fetched only while
\* the buffer is short of N and the page exists; a failed fetch adds nothing and does
\* not end the loop; the loop ends only when the buffer reached N or no page is left.
LeastPages(total) == CHOOSE m \in 1..total + 1 : m * rowsPerPage >= total /\ \A k \in 1..m - 1 : k * rowsPerPage < total

FetchesInOrder(x) ==
    /\ \A i \in 1..Len(x.fetched) :
          /\ x.fetched[i].p = x.page + i
          /\ x.fetched[i].p <= LeastPages(x.totalRecords)
          /\ x.fetched[i].before < x.n
    /\ x.fetched # <<>> => x.fetched[1].before = x.seedLen
    /\ \A i \in 1..Len(x.outcomes) :
          LET after == IF i < Len(x.fetched) THEN x.fetched[i + 1].before ELSE Len(x.combined)
          IN after = x.fetched[i].before
                       + IF x.outcomes[i] = "ok" THEN Len(PageData(x.fetched[i].p)) ELSE 0

C8_FetchesSequentialUntilEnough ==
    /\ bulk.pc = "awaiting" =>
          /\ FetchesInOrder(bulk)
          /\ Len(bulk.fetched) = Len(bulk.outcomes) + 1
    /\ event.name = "bulkDone" =>
          /\ FetchesInOrder(event)
          /\ Len(event.fetched) = Len(event.outcomes)
          /\ \/ Len(event.combined) >= event.n
             \/ event.page + Len(event.fetched) + 1 > LeastPages(event.totalRecords)

\* page 2 failed, so page 3 was fetched as well
C8_Witness ==
    /\ event.name = "bulkDone"
    /\ Len(event.fetched) = 2
    /\ event.outcomes = <<"error", "ok">>
    /\ event.fetched[2].p = 3

\* C9: everyNth with N > 1 and available >= N selects the multiples of N below
\* available, in increasing order, at most min(N, available) of them.
C9_EveryNthPicksMultiples ==
    event.name = "indices" /\ event.strategy = "every" /\ event.n > 1
        /\ event.availableCount >= event.n =>
      /\ Len(event.indices) =
            Min(Min(event.n, event.availableCount), Strides(event.n, event.availableCount))
      /\ \A i \in 1..Len(event.indices) : event.indices[i] = (i - 1) * event.n

\* an everyNth selection that took more than one stride
C9_Witness ==
    /\ event.name = "indices"
    /\ event.strategy = "every"
    /\ event.n > 1
    /\ Len(event.indices) >= 2

\* once a page has been shown, the buffer holds the responses for the pages page,
\* page+1, ... and no other
ConsecutiveFromPage(x) ==
    x.sources[1] # 0 => \A i \in 1..Len(x.sources) : x.sources[i] = x.page + i - 1

\* C10: the buffer of a bulk select is the concatenation of the contents of the
\* pages page, page+1, ..., starting with the page the page cursor names, also when
\* the bulk select starts while a page change is still loading.
C10_BufferStartsAtCurrentPage ==
    /\ bulk.pc = "awaiting" => ConsecutiveFromPage(bulk)
    /\ event.name = "bulkDone" => ConsecutiveFromPage(event)

====
